---- MODULE Spec2Model ----
(***************************************************************************)
(* The crawl loop of crawl_site, in its three variants:                    *)
(*   crawler.py, enhanced_crawler.py and llms-txt-generator.py.            *)
(* One action is one iteration of the while loop (or the return after it). *)
(* A URL is a sequence of tokens (authority, "/", path segments, an        *)
(* extension), so that str.startswith, `in` and str.endswith are computed  *)
(* on the URL's text and not assumed.                                      *)
(***************************************************************************)
EXTENDS Integers, Sequences, FiniteSets, TLC

\* ------------------------------------------------------------------ bounds
MaxBudget == 3      \* max_pages ranges over 1..MaxBudget
MaxRecorded == 4    \* entries of pages the model keeps (a prefix of the list)
MaxCount == 2       \* the history counters saturate here
MaxListed == 2      \* longest page list main is started with after the crawl
MaxReplayed == 5    \* fetches of the first of two runs
MaxQueries == 2     \* longest list of test queries

\* ------------------------------------------------------------------ URLs
SiteHost == "https://x.test"
OtherHost == "https://other.test"

Origin == <<SiteHost, "/">>
PageA == <<SiteHost, "/", "a">>
PageB == <<SiteHost, "/", "b">>
DocPdf == <<SiteHost, "/", "doc", ".pdf">>
Redirector == <<OtherHost, "/", "?next=", SiteHost, "/">>
Foreign == <<OtherHost, "/">>

\* every absolute URL the site's anchors resolve to
Universe == {Origin, PageA, PageB, DocPdf, Redirector, Foreign}

\* an href urljoin cannot parse (an unbalanced IPv6 bracket): it raises ValueError
BadHref == <<"http://[">>
\* a root-relative href
RelA == <<"/", "a">>

\* the HTML pages of the site, and the anchor lists a page may carry
HtmlPages == {Origin, PageA, PageB}
Menu == { <<>>,
          <<PageA, PageB>>,
          <<PageB, PageA>>,
          <<Origin, PageB>>,
          <<Origin, BadHref>>,
          <<PageA, BadHref>>,
          <<DocPdf, Redirector>>,
          <<Foreign, RelA>> }
Sites == [HtmlPages -> Menu]

\* the pages whose <title> element holds text; the others carry no <title>
Titled == {Origin, PageB}
TitleText == <<"Title">>

\* crawl_site of crawler.py, of enhanced_crawler.py and of llms-txt-generator.py
\* (the last two hold the same text)
Variants == {"crawler", "enhanced", "generator"}

ExcludedExtensions == {".pdf", ".jpg", ".png", ".gif", ".zip"}

Raised == <<"raise">>

\* ------------------------------------------------------------------ main
\* Python's None, apart from every string (a string holds single characters)
None == <<"None">>

\* --name
SiteName == <<"X">>

\* datetime.datetime.now().strftime("%Y-%m-%d") on two consecutive days
Day1 == <<"2", "0", "2", "5", "-", "0", "1", "-", "0", "1">>
Day2 == <<"2", "0", "2", "5", "-", "0", "1", "-", "0", "2">>

\* the output files; a file that was never opened holds None
FileNames == {"llms.txt", "llms-enhanced.txt", "llms-full.txt"}
NoFiles == [f \in FileNames |-> None]

VARIABLES
  site,       \* the web site: the anchors of each HTML page, in document order
  variant,    \* which file's crawl_site runs
  base_url,   \* argument
  max_pages,  \* argument
  to_visit,   \* the queue (a list, popped at the front)
  visited,    \* set of URLs
  pages,      \* list of <<url, title>>
  outcome,    \* "running" in the loop, "returned" after return pages, "raised"
  last,       \* history: what the last iteration did, and to which URL
  failed,     \* history: URLs whose fetch raised or answered non-200
  fetches,    \* history: requests.get calls issued per URL
  appended,   \* history: times each URL was put in to_visit
  answered,   \* history: URLs some fetch of which answered 200
  discovered, \* history: the URLs put in to_visit, in the order of their first append
  replay,     \* a second run of crawl_site: the fetch outcomes and result of the first
  pc,         \* main: the statement main is at
  args,       \* main: the parsed command line (name, skip_enhance, full)
  today,      \* the date the system clock gives
  basic_map,  \* main: the string group_and_format returned
  full_map,   \* main: the string a second call of group_and_format returned
  enhanced_map, \* main: what enhance_site_map returned
  api,        \* history: how the enhancement call ended
  files,      \* the files of the working directory, by name
  environ,    \* benchmark: the environment variables that are set, with their values
  api_name,   \* benchmark: the backend main resolved
  queries,    \* benchmark: the test queries, after --max-queries
  results,    \* benchmark: the list main appends an entry per scored query to
  report,     \* benchmark: the content of the report file, None while not written
  calls       \* history: how the iteration of each query so far ended

\* the state of crawl_site and its history
crawlVars == <<site, variant, base_url, max_pages, to_visit, visited, pages,
               outcome, last, failed, fetches, appended, answered, discovered,
               replay>>

\* the state of main outside crawl_site
mainVars == <<pc, args, today, basic_map, full_map, enhanced_map, api, files,
              environ, api_name, queries, results, report, calls>>

vars == <<site, variant, base_url, max_pages, to_visit, visited, pages, outcome,
          last, failed, fetches, appended, answered, discovered, replay,
          pc, args, today, basic_map, full_map, enhanced_map, api, files,
          environ, api_name, queries, results, report, calls>>

\* ------------------------------------------------------------------ strings
Range(s) == {s[i] : i \in 1..Len(s)}

\* str.startswith
startswith(s, p) == Len(p) <= Len(s) /\ SubSeq(s, 1, Len(p)) = p

\* p in s, on strings
contains(s, p) ==
  \E i \in 1..(Len(s) - Len(p) + 1) : SubSeq(s, i, i + Len(p) - 1) = p

\* str.endswith with a tuple of suffixes
endswith(s, suffixes) == Len(s) > 0 /\ s[Len(s)] \in suffixes

\* urllib.parse.urljoin(base, href)
urljoin(base, href) ==
  IF href = BadHref THEN Raised
  ELSE IF href[1] = "/" THEN <<base[1]>> \o href
  ELSE href

\* ------------------------------------------------------------------ text
\* A Python str is the sequence of its characters. The tokens URLs and titles
\* are written with are spelled out here; a token that is not listed is one
\* character (or a fixed run of prose of the f-strings) and stands for itself.
Spell ==
  (SiteHost :> <<"h", "t", "t", "p", "s", ":", "/", "/", "x", ".", "t", "e", "s", "t">>) @@
  (OtherHost :> <<"h", "t", "t", "p", "s", ":", "/", "/", "o", "t", "h", "e", "r",
                  ".", "t", "e", "s", "t">>) @@
  ("?next=" :> <<"?", "n", "e", "x", "t", "=">>) @@
  ("doc" :> <<"d", "o", "c">>) @@
  (".pdf" :> <<".", "p", "d", "f">>) @@
  ("An" :> <<"A", "n">>) @@
  ("Title" :> <<"T", "i", "t", "l", "e">>) @@
  ("Home" :> <<"H", "o", "m", "e">>) @@
  ("home" :> <<"h", "o", "m", "e">>)

\* the text of a token sequence
RECURSIVE Str(_)
Str(t) ==
  IF t = <<>> THEN <<>>
  ELSE (IF Head(t) \in DOMAIN Spell THEN Spell[Head(t)] ELSE <<Head(t)>>)
       \o Str(Tail(t))

ascii_lowercase ==
  <<"a", "b", "c", "d", "e", "f", "g", "h", "i", "j", "k", "l", "m",
    "n", "o", "p", "q", "r", "s", "t", "u", "v", "w", "x", "y", "z">>
ascii_uppercase ==
  <<"A", "B", "C", "D", "E", "F", "G", "H", "I", "J", "K", "L", "M",
    "N", "O", "P", "Q", "R", "S", "T", "U", "V", "W", "X", "Y", "Z">>

\* the code points of the other characters in use
Punctuation ==
  ("\t" :> 9) @@ ("\n" :> 10) @@ (" " :> 32) @@ ("#" :> 35) @@ ("(" :> 40) @@
  (")" :> 41) @@ ("-" :> 45) @@ ("." :> 46) @@ ("/" :> 47) @@ ("0" :> 48) @@
  ("1" :> 49) @@ ("2" :> 50) @@ ("5" :> 53) @@ (":" :> 58) @@ ("=" :> 61) @@
  (">" :> 62) @@ ("?" :> 63) @@ ("[" :> 91) @@ ("]" :> 93) @@ ("_" :> 95)

PositionIn(c, alphabet) == CHOOSE i \in 1..Len(alphabet) : alphabet[i] = c
islower(c) == c \in Range(ascii_lowercase)
isupper(c) == c \in Range(ascii_uppercase)
isalpha(c) == islower(c) \/ isupper(c)

\* ord(c)
ord(c) ==
  IF islower(c) THEN 96 + PositionIn(c, ascii_lowercase)
  ELSE IF isupper(c) THEN 64 + PositionIn(c, ascii_uppercase)
  ELSE Punctuation[c]

upper(c) == IF islower(c) THEN ascii_uppercase[PositionIn(c, ascii_lowercase)] ELSE c
lower(c) == IF isupper(c) THEN ascii_lowercase[PositionIn(c, ascii_uppercase)] ELSE c

\* a < b on str: the first differing code point decides, a proper prefix is less
RECURSIVE StrLess(_, _)
StrLess(a, b) ==
  IF b = <<>> THEN FALSE
  ELSE IF a = <<>> THEN TRUE
  ELSE IF Head(a) # Head(b) THEN ord(Head(a)) < ord(Head(b))
  ELSE StrLess(Tail(a), Tail(b))

Min(S) == CHOOSE x \in S : \A y \in S : x <= y

\* the first index >= from of a character of chars in s, Len(s) + 1 if none
Find(s, chars, from) ==
  LET I == {i \in from..Len(s) : s[i] \in chars}
  IN IF I = {} THEN Len(s) + 1 ELSE Min(I)

\* urlparse(url).path: what follows the scheme and the //netloc, up to ? or #
urlparse_path(s) ==
  LET colon == Find(s, {":"}, 1)
      rest == IF colon <= Len(s) THEN colon + 1 ELSE 1
      netloc == rest + 1 <= Len(s) /\ s[rest] = "/" /\ s[rest + 1] = "/"
      from == IF netloc THEN Find(s, {"/", "?", "#"}, rest + 2) ELSE rest
      to == Find(s, {"?", "#"}, from)
  IN SubSeq(s, from, to - 1)

\* str.strip(chars)
RECURSIVE strip(_, _)
strip(s, chars) ==
  IF s = <<>> THEN s
  ELSE IF Head(s) \in chars THEN strip(Tail(s), chars)
  ELSE IF s[Len(s)] \in chars THEN strip(SubSeq(s, 1, Len(s) - 1), chars)
  ELSE s

\* str.split(sep)[0]
split_first(s, sep) == SubSeq(s, 1, Find(s, {sep}, 1) - 1)

\* str.replace(old, new), on single characters
replace(s, old, new) == [i \in 1..Len(s) |-> IF s[i] = old THEN new ELSE s[i]]

\* str.title(): a letter that follows a letter is lowered, any other letter raised
title(s) ==
  [i \in 1..Len(s) |->
     IF i > 1 /\ isalpha(s[i - 1]) THEN lower(s[i]) ELSE upper(s[i])]

\* str.capitalize(): the first character raised, the others lowered
capitalize(s) == [i \in 1..Len(s) |-> IF i = 1 THEN upper(s[i]) ELSE lower(s[i])]

\* the characters \s matches
Whitespace == {" ", "\t", "\n"}

\* re.sub(r'\s+', ' ', s)
RECURSIVE collapse(_)
collapse(s) ==
  IF s = <<>> THEN s
  ELSE IF Head(s) \in Whitespace
       THEN IF Len(s) > 1 /\ s[2] \in Whitespace THEN collapse(Tail(s))
            ELSE <<" ">> \o collapse(Tail(s))
  ELSE <<Head(s)>> \o collapse(Tail(s))

\* sorted(xs) on a list of str: a stable sort. The place of xs[i] is one more
\* than the number of entries that are less, or are equal and stand before it.
sorted(xs) ==
  LET rank(i) == 1 + Cardinality({j \in 1..Len(xs) :
                       \/ StrLess(xs[j], xs[i])
                       \/ (~StrLess(xs[i], xs[j]) /\ j < i)})
  IN [k \in 1..Len(xs) |-> xs[CHOOSE i \in 1..Len(xs) : rank(i) = k]]

\* sorted(xs, key=lambda x: len(x[1])) on a list of (title, url): the same
\* stable sort, the entries compared by the length of the URL's text
sorted_by_len(xs) ==
  LET key(i) == Len(Str(xs[i][2]))
      rank(i) == 1 + Cardinality({j \in 1..Len(xs) :
                       \/ key(j) < key(i)
                       \/ (key(j) = key(i) /\ j < i)})
  IN [k \in 1..Len(xs) |-> xs[CHOOSE i \in 1..Len(xs) : rank(i) = k]]

\* ------------------------------------------------------------------ variants
\* crawler.py appends without looking at to_visit or at the extension
ChecksQueue(v) == v \in {"enhanced", "generator"}
ChecksExtension(v) == v \in {"enhanced", "generator"}

\* ------------------------------------------------------------------ the loop
\* a faulty loop condition: the pages of an earlier call count against the budget
LoopCondCountsEarlierRun ==
  to_visit # <<>> /\ Cardinality(visited) + Len(replay.pages1) < max_pages

\* while to_visit and len(visited) < max_pages
LoopCond == to_visit # <<>> /\ Cardinality(visited) < max_pages

\* a faulty pop: the front URL is read and left in the queue
RestKeepsFront(q) == q

\* url = to_visit.pop(0): what is left
Rest(q) == Tail(q)

\* a faulty test: the visited half is missing
SkipOutOfScopeOnly(u) == ~startswith(u, base_url)

\* if url in visited or not url.startswith(base_url): continue
Skip(u) == u \in visited \/ ~startswith(u, base_url)

\* a faulty test: a link to a visited URL is appended
AdmitIgnoresVisited(full, q) ==
  /\ contains(full, base_url)
  /\ (ChecksQueue(variant) => full \notin Range(q))
  /\ (ChecksExtension(variant) => ~endswith(full, ExcludedExtensions))

\* the condition under which a resolved link is appended
Admit(full, q) ==
  /\ contains(full, base_url)
  /\ full \notin visited
  /\ (ChecksQueue(variant) => full \notin Range(q))
  /\ (ChecksExtension(variant) => ~endswith(full, ExcludedExtensions))

\* for link in soup.find_all('a', href=True): ... to_visit.append(full_url)
RECURSIVE LinkLoop(_, _, _, _)
LinkLoop(u, links, i, q) ==
  IF i > Len(links) THEN [queue |-> q, raised |-> FALSE]
  ELSE LET full == urljoin(u, links[i]) IN
       IF full = Raised THEN [queue |-> q, raised |-> TRUE]
       ELSE LinkLoop(u, links, i + 1, IF Admit(full, q) THEN Append(q, full) ELSE q)

\* a faulty handler: the exception leaves crawl_site
OnExceptionPropagates == "raised"

\* except Exception: continue
OnException == "running"

\* a faulty record: the entry is inserted in front of the list
RecordInFront(ps, e) == IF Len(ps) < MaxRecorded THEN <<e>> \o ps ELSE ps

\* pages.append((url, title)); the model keeps the first MaxRecorded entries
Record(ps, e) == IF Len(ps) < MaxRecorded THEN Append(ps, e) ELSE ps

\* title = soup.title.string.strip() if soup.title else url
TitleOf(u) == IF u \in Titled THEN TitleText ELSE u

\* ------------------------------------------------------------------ history
CountUp(n) == IF n < MaxCount THEN n + 1 ELSE n

\* the anchors the server sends for u (a PDF parses to no anchor)
Anchors(u) == IF u \in HtmlPages THEN site[u] ELSE <<>>

\* the URLs the anchors of u resolve to
Targets(u) ==
  {urljoin(u, Anchors(u)[i]) : i \in 1..Len(Anchors(u))} \ {Raised}

FetchOps == {"error", "non200", "title", "done", "linkerr"}

\* the fetch outcomes of two runs: run 0 is a single run, run 1 notes the
\* outcome of each fetch (of MaxReplayed fetches at most), run 2 gets the
\* outcomes run 1 noted, in their order
Replay(op) ==
  CASE replay.run = 0 -> replay' = replay
    [] replay.run = 1 -> /\ Len(replay.trace) < MaxReplayed
                         /\ replay' = [replay EXCEPT !.trace = Append(@, op)]
    [] replay.run = 2 -> /\ replay.trace # <<>>
                         /\ Head(replay.trace) = op
                         /\ replay' = [replay EXCEPT !.trace = Tail(@)]

NoReplay == [run |-> 0, trace |-> <<>>, pages1 |-> <<>>]

\* history of one requests.get of u ending as op: again says that an earlier
\* fetch of u had failed, revisit that u was in visited when it was fetched,
\* slept that the iteration reached time.sleep(delay), the line after
\* requests.get, rested that time.sleep has run since the latest requests.get
Fetched(u, op) ==
  /\ last' = [op |-> op, url |-> u, again |-> u \in failed,
              revisit |-> u \in visited, slept |-> op # "error",
              rested |-> op # "error"]
  /\ fetches' = [fetches EXCEPT ![u] = CountUp(@)]
  /\ answered' = IF op \in {"error", "non200"} THEN answered
                 ELSE answered \cup {u}
  /\ Replay(op)

\* history of an iteration that left before requests.get
NoFetch(op, u) ==
  [op |-> op, url |-> u, again |-> FALSE, revisit |-> FALSE, slept |-> FALSE,
   rested |-> TRUE]

\* history of the appends that turned the popped queue into q
RECURSIVE Queued(_, _, _)
Queued(f, q, i) ==
  IF i > Len(q) THEN f
  ELSE Queued([f EXCEPT ![q[i]] = CountUp(@)], q, i + 1)

\* history of the first appends among the appends that turned the popped queue
\* into q
RECURSIVE Discovered(_, _, _)
Discovered(d, q, i) ==
  IF i > Len(q) THEN d
  ELSE Discovered(IF q[i] \in Range(d) THEN d ELSE Append(d, q[i]), q, i + 1)

\* ------------------------------------------------------------------ Init
Init ==
  /\ site \in Sites
  /\ variant \in Variants
  /\ base_url = Origin
  /\ max_pages \in 1..MaxBudget
  /\ to_visit = <<base_url>>
  /\ visited = {}
  /\ pages = <<>>
  /\ outcome = "running"
  /\ last = NoFetch("start", base_url)
  /\ failed = {}
  /\ fetches = [u \in Universe |-> 0]
  /\ appended = [u \in Universe |-> IF u = base_url THEN 1 ELSE 0]
  /\ answered = {}
  /\ discovered = <<base_url>>
  /\ replay = NoReplay
  /\ pc = "crawl_site"
  /\ args = [name |-> SiteName, skip_enhance |-> TRUE, full |-> FALSE]
  /\ today = Day1
  /\ basic_map = None
  /\ full_map = None
  /\ enhanced_map = None
  /\ api = "none"
  /\ files = NoFiles
  /\ environ = <<>>
  /\ api_name = None
  /\ queries = <<>>
  /\ results = <<>>
  /\ report = None
  /\ calls = <<>>

Running == outcome = "running" /\ LoopCond

\* a faulty discard: the skipped URL is marked visited
DiscardMarksVisited ==
  /\ Running
  /\ Skip(Head(to_visit))
  /\ to_visit' = Rest(to_visit)
  /\ visited' = visited \cup {Head(to_visit)}
  /\ last' = [NoFetch("discard", Head(to_visit)) EXCEPT !.rested = last.rested]
  /\ UNCHANGED <<site, variant, base_url, max_pages, pages, outcome,
                 failed, fetches, appended,
                 answered>>
  /\ UNCHANGED <<discovered, replay>>
  /\ UNCHANGED mainVars

\* the popped URL is visited or out of scope
Discard ==
  /\ Running
  /\ Skip(Head(to_visit))
  /\ to_visit' = Rest(to_visit)
  /\ last' = [NoFetch("discard", Head(to_visit)) EXCEPT !.rested = last.rested]
  /\ UNCHANGED <<site, variant, base_url, max_pages, visited, pages, outcome,
                 failed, fetches, appended,
                 answered>>
  /\ UNCHANGED <<discovered, replay>>
  /\ UNCHANGED mainVars

\* requests.get raises (DNS, refused, timeout)
FetchRaises ==
  /\ Running
  /\ ~Skip(Head(to_visit))
  /\ to_visit' = Rest(to_visit)
  /\ outcome' = OnException
  /\ failed' = failed \cup {Head(to_visit)}
  /\ Fetched(Head(to_visit), "error")
  /\ UNCHANGED <<site, variant, base_url, max_pages, visited, pages, appended>>
  /\ UNCHANGED discovered
  /\ UNCHANGED mainVars

\* a faulty status test: the URL that answered non-200 is marked visited
FetchNon200MarksVisited ==
  /\ Running
  /\ ~Skip(Head(to_visit))
  /\ to_visit' = Rest(to_visit)
  /\ visited' = visited \cup {Head(to_visit)}
  /\ failed' = failed \cup {Head(to_visit)}
  /\ Fetched(Head(to_visit), "non200")
  /\ UNCHANGED <<site, variant, base_url, max_pages, pages, outcome,
                 appended>>
  /\ UNCHANGED discovered
  /\ UNCHANGED mainVars

\* response.status_code != 200: continue
FetchNon200 ==
  /\ Running
  /\ ~Skip(Head(to_visit))
  /\ to_visit' = Rest(to_visit)
  /\ failed' = failed \cup {Head(to_visit)}
  /\ Fetched(Head(to_visit), "non200")
  /\ UNCHANGED <<site, variant, base_url, max_pages, visited, pages, outcome,
                 appended>>
  /\ UNCHANGED discovered
  /\ UNCHANGED mainVars

\* 200, but <title></title>: soup.title.string is None, .strip() raises
TitleRaises ==
  /\ Running
  /\ ~Skip(Head(to_visit))
  /\ to_visit' = Rest(to_visit)
  /\ outcome' = OnException
  /\ Fetched(Head(to_visit), "title")
  /\ UNCHANGED <<site, variant, base_url, max_pages, visited, pages, failed,
                 appended>>
  /\ UNCHANGED discovered
  /\ UNCHANGED mainVars

\* a faulty mark: visited is assigned the URL where the code adds it
PageDoneReplacesVisited ==
  /\ Running
  /\ ~Skip(Head(to_visit))
  /\ LET u == Head(to_visit)
         r == LinkLoop(u, Anchors(u), 1, Rest(to_visit))
     IN /\ ~r.raised
        /\ to_visit' = r.queue
        /\ pages' = Record(pages, <<u, TitleOf(u)>>)
        /\ visited' = {u}
        /\ Fetched(u, "done")
        /\ appended' = Queued(appended, r.queue, Len(Rest(to_visit)) + 1)
        /\ discovered' = Discovered(discovered, r.queue, Len(Rest(to_visit)) + 1)
  /\ UNCHANGED <<site, variant, base_url, max_pages, outcome, failed>>
  /\ UNCHANGED mainVars

\* 200, the page is appended, every link is processed, the URL is marked visited
PageDone ==
  /\ Running
  /\ ~Skip(Head(to_visit))
  /\ LET u == Head(to_visit)
         r == LinkLoop(u, Anchors(u), 1, Rest(to_visit))
     IN /\ ~r.raised
        /\ to_visit' = r.queue
        /\ pages' = Record(pages, <<u, TitleOf(u)>>)
        /\ visited' = visited \cup {u}
        /\ Fetched(u, "done")
        /\ appended' = Queued(appended, r.queue, Len(Rest(to_visit)) + 1)
        /\ discovered' = Discovered(discovered, r.queue, Len(Rest(to_visit)) + 1)
  /\ UNCHANGED <<site, variant, base_url, max_pages, outcome, failed>>
  /\ UNCHANGED mainVars

\* 200, the page is appended, urljoin raises on one of its links
LinkRaises ==
  /\ Running
  /\ ~Skip(Head(to_visit))
  /\ LET u == Head(to_visit)
         r == LinkLoop(u, Anchors(u), 1, Rest(to_visit))
     IN /\ r.raised
        /\ to_visit' = r.queue
        /\ pages' = Record(pages, <<u, TitleOf(u)>>)
        /\ outcome' = OnException
        /\ Fetched(u, "linkerr")
        /\ appended' = Queued(appended, r.queue, Len(Rest(to_visit)) + 1)
        /\ discovered' = Discovered(discovered, r.queue, Len(Rest(to_visit)) + 1)
  /\ UNCHANGED <<site, variant, base_url, max_pages, visited, failed>>
  /\ UNCHANGED mainVars

\* the loop condition is false: return pages
Return ==
  /\ outcome = "running"
  /\ ~LoopCond
  /\ outcome' = "returned"
  /\ last' = NoFetch("return", base_url)
  /\ UNCHANGED <<site, variant, base_url, max_pages, to_visit, visited, pages,
                 failed, fetches, appended,
                 answered>>
  /\ UNCHANGED <<discovered, replay>>
  /\ UNCHANGED mainVars

Next ==
  \/ Discard
  \/ FetchRaises
  \/ FetchNon200
  \/ TitleRaises
  \/ PageDone
  \/ LinkRaises
  \/ Return

Spec == Init /\ [][Next]_vars

\* the interpreter keeps executing the loop: some step is taken while one is possible
LiveSpec == Init /\ [][Next]_vars /\ WF_vars(Next)

\* ------------------------------------------------------------------ two runs
\* crawl_site is called, and after it returned it is called again with the same
\* arguments on the same site; each fetch of the second run ends as the fetch
\* of the same rank did in the first run
TwinInit ==
  /\ site \in Sites
  /\ variant = "generator"
  /\ base_url = Origin
  /\ max_pages \in 1..MaxBudget
  /\ to_visit = <<base_url>>
  /\ visited = {}
  /\ pages = <<>>
  /\ outcome = "running"
  /\ last = NoFetch("start", base_url)
  /\ failed = {}
  /\ fetches = [u \in Universe |-> 0]
  /\ appended = [u \in Universe |-> IF u = base_url THEN 1 ELSE 0]
  /\ answered = {}
  /\ discovered = <<base_url>>
  /\ replay = [run |-> 1, trace |-> <<>>, pages1 |-> <<>>]
  /\ pc = "crawl_site"
  /\ args = [name |-> SiteName, skip_enhance |-> TRUE, full |-> FALSE]
  /\ today = Day1
  /\ basic_map = None
  /\ full_map = None
  /\ enhanced_map = None
  /\ api = "none"
  /\ files = NoFiles
  /\ environ = <<>>
  /\ api_name = None
  /\ queries = <<>>
  /\ results = <<>>
  /\ report = None
  /\ calls = <<>>

\* the second call: visited = set(), to_visit = [base_url], pages = []
Restart ==
  /\ outcome = "returned"
  /\ replay.run = 1
  /\ to_visit' = <<base_url>>
  /\ visited' = {}
  /\ pages' = <<>>
  /\ outcome' = "running"
  /\ last' = NoFetch("start", base_url)
  /\ failed' = {}
  /\ fetches' = [u \in Universe |-> 0]
  /\ appended' = [u \in Universe |-> IF u = base_url THEN 1 ELSE 0]
  /\ answered' = {}
  /\ discovered' = <<base_url>>
  /\ replay' = [run |-> 2, trace |-> replay.trace, pages1 |-> pages]
  /\ UNCHANGED <<site, variant, base_url, max_pages>>
  /\ UNCHANGED mainVars

TwinNext ==
  \/ Discard
  \/ FetchRaises
  \/ FetchNon200
  \/ TitleRaises
  \/ PageDone
  \/ LinkRaises
  \/ Return
  \/ Restart

TwinSpec == TwinInit /\ [][TwinNext]_vars

\* ------------------------------------------------------------------ group_and_format
\* the three group_and_format differ in the header, in the ordering of sections
\* and links, in the heading and in the clean-up of titles
Home == Str(<<"Home">>)

\* parts = path.strip("/").split("/"); parts[0] if parts and parts[0] else "Home"
top_section(url) ==
  LET first == split_first(strip(urlparse_path(Str(url)), {"/"}), "/")
  IN IF first # <<>> THEN first ELSE Home

\* grouped.keys(): a dict keeps its keys in the order of their first insertion
RECURSIVE keys(_)
keys(ps) ==
  IF ps = <<>> THEN <<>>
  ELSE LET before == keys(SubSeq(ps, 1, Len(ps) - 1))
           k == top_section(ps[Len(ps)][1])
       IN IF k \in Range(before) THEN before ELSE Append(before, k)

\* a faulty grouping: the section keeps the last page only (an assignment
\* where the code appends)
groupedLastOnly(ps, section) ==
  LET own == SelectSeq(ps, LAMBDA p : top_section(p[1]) = section)
  IN <<<<own[Len(own)][2], own[Len(own)][1]>>>>

\* grouped[section]: the (title, url) of the section's pages, in input order
grouped(ps, section) ==
  LET own == SelectSeq(ps, LAMBDA p : top_section(p[1]) = section)
  IN [i \in 1..Len(own) |-> <<own[i][2], own[i][1]>>]

\* the list the output loop iterates over: grouped.items() in crawler.py,
\* sorted(grouped.keys()) with "Home" moved to the front in the two others
sections(v, ps) ==
  IF v = "crawler" THEN keys(ps)
  ELSE LET ks == sorted(keys(ps))
       IN IF Home \in Range(ks)
          THEN <<Home>> \o SelectSeq(ks, LAMBDA k : k # Home)
          ELSE ks

\* links = sorted(grouped[section], key=lambda x: len(x[1])); crawler.py does
\* not sort
links(v, ps, section) ==
  IF v = "crawler" THEN grouped(ps, section)
  ELSE sorted_by_len(grouped(ps, section))

\* slug.replace("-", " ").replace("_", " ").title()
section_label(slug) == title(replace(replace(slug, "-", " "), "_", " "))

\* f"## {section_label(section)}\n\n", f"## {section.capitalize()}\n\n"
heading(v, section) ==
  <<"#", "#", " ">>
  \o (IF v = "generator" THEN section_label(section) ELSE capitalize(section))
  \o <<"\n", "\n">>

\* clean_title = re.sub(r'\s+', ' ', title); crawler.py writes the title as it is
clean_title(v, t) == IF v = "crawler" THEN Str(t) ELSE collapse(Str(t))

\* f"- [{clean_title}]({url})\n"
bullet(v, link) ==
  <<"-", " ", "[">> \o clean_title(v, link[1]) \o <<"]", "(">>
  \o Str(link[2]) \o <<")", "\n">>

RECURSIVE bullets(_, _)
bullets(v, ls) ==
  IF ls = <<>> THEN <<>> ELSE bullet(v, Head(ls)) \o bullets(v, Tail(ls))

\* the H1 and the blockquote
header(v, site_name, url, day) ==
  IF v = "generator"
  THEN <<"#", " ">> \o Str(site_name) \o <<"\n", "\n">>
       \o <<">", " ", "Site map of ">> \o Str(site_name) \o <<" ", "(">>
       \o Str(url) \o <<")", ", auto-generated for LLM context.", "\n", "\n">>
  ELSE IF v = "enhanced"
  THEN <<"#", " ">> \o Str(site_name)
       \o <<" - Auto-Generated Site Map", "\n", "\n">>
       \o <<">", " ", "Automatically generated site map on ">> \o day
       \o <<" for LLM understanding.", "\n", "\n">>
  ELSE <<"#", " ", "Gies College of Business - Auto-Generated llms.txt", "\n", "\n",
         ">", " ", "Automatically generated site map for LLM understanding.",
         "\n", "\n">>

\* for section in sections: heading, bullets, an empty line
RECURSIVE body(_, _, _)
body(v, ps, secs) ==
  IF secs = <<>> THEN <<>>
  ELSE heading(v, Head(secs)) \o bullets(v, links(v, ps, Head(secs)))
       \o <<"\n">> \o body(v, ps, Tail(secs))

\* group_and_format of variant v; day is what datetime.datetime.now() gives
\* during the call
group_and_format(v, ps, site_name, url, day) ==
  header(v, site_name, url, day) \o body(v, ps, sections(v, ps))

\* ------------------------------------------------------------------ enhancement
\* the three backquotes of a Markdown code fence, as one token
Fence == "<fence>"

\* str.split("\n")
RECURSIVE split_lines(_)
split_lines(s) ==
  LET nl == Find(s, {"\n"}, 1)
  IN IF nl > Len(s) THEN <<s>>
     ELSE <<SubSeq(s, 1, nl - 1)>> \o split_lines(SubSeq(s, nl + 1, Len(s)))

\* "\n".join(lines)
RECURSIVE join_lines(_)
join_lines(ls) ==
  IF ls = <<>> THEN <<>>
  ELSE IF Len(ls) = 1 THEN ls[1]
  ELSE ls[1] \o <<"\n">> \o join_lines(Tail(ls))

\* bool(x) of a str or None
Truthy(x) == x # None /\ x # <<>>

\* what enhance_site_map returns when enhance_with_gemini returned reply:
\* llms-txt-generator.py strips white space and a code fence, enhanced_crawler.py
\* returns the reply
enhance_site_map(v, reply) ==
  IF v = "generator" /\ Truthy(reply)
  THEN LET stripped == strip(reply, Whitespace)
           lines == split_lines(stripped)
       IN IF stripped # <<>> /\ Head(stripped) = Fence
          THEN strip(join_lines(
                 IF strip(lines[Len(lines)], Whitespace) = <<Fence>>
                 THEN SubSeq(lines, 2, Len(lines) - 1)
                 ELSE Tail(lines)), Whitespace)
          ELSE stripped
  ELSE reply

\* the texts result["candidates"][0]["content"]["parts"][0]["text"] may hold
Replies ==
  { <<>>,
    <<" ", "\n">>,
    <<"#", " ", "X", "\n">>,
    <<Fence, "markdown", "\n", "#", " ", "X", "\n", Fence, "\n">>,
    <<Fence, "\n", Fence>> }

\* ------------------------------------------------------------------ main
AX == <<SiteHost, "/", "a", "/", "x">>
AY == <<SiteHost, "/", "a", "/", "y">>
An == <<SiteHost, "/", "An">>
HomeDir == <<SiteHost, "/", "Home">>
HomeLower == <<SiteHost, "/", "home">>

\* (url, title) pairs crawl_site may return: the title is the stripped text of
\* <title>, or the URL when the page has no <title>
SitePages ==
  { <<Origin, <<"Title">>>>,
    <<PageA, PageA>>,
    <<PageB, <<"Title", " ", "\n", "b">>>>,
    <<AX, <<"Title">>>>,
    <<AY, AY>>,
    <<An, <<"Title">>>>,
    <<HomeDir, <<"Title">>>>,
    <<HomeLower, <<"Title">>>> }

PageLists == UNION {[1..n -> SitePages] : n \in 0..MaxListed}

\* --skip-enhance and --full exist in llms-txt-generator.py, --skip-enhance in
\* enhanced_crawler.py; crawler.py has no enhancement
ArgSets(v) ==
  [name : {SiteName},
   skip_enhance : IF v = "crawler" THEN {TRUE} ELSE BOOLEAN,
   full : IF v = "generator" THEN BOOLEAN ELSE {FALSE}]

\* main after pages = crawl_site(...) returned
MainInit ==
  /\ site = [u \in HtmlPages |-> <<>>]
  /\ variant \in Variants
  /\ base_url = Origin
  /\ max_pages = MaxBudget
  /\ to_visit = <<>>
  /\ visited = {}
  /\ pages \in PageLists
  /\ outcome = "returned"
  /\ last = NoFetch("return", base_url)
  /\ failed = {}
  /\ fetches = [u \in Universe |-> 0]
  /\ appended = [u \in Universe |-> 0]
  /\ answered = {}
  /\ discovered = <<>>
  /\ replay = NoReplay
  /\ pc = "format"
  /\ args \in ArgSets(variant)
  /\ today = Day1
  /\ basic_map = None
  /\ full_map = None
  /\ enhanced_map = None
  /\ api = "none"
  /\ files = NoFiles
  /\ environ = <<>>
  /\ api_name = None
  /\ queries = <<>>
  /\ results = <<>>
  /\ report = None
  /\ calls = <<>>

\* with open(name, "w") as f: f.write(text)
write(fs, name, text) == [fs EXCEPT ![name] = text]

\* the day changes while main runs
Midnight ==
  /\ pc \in {"format", "save", "enhance", "full"}
  /\ today = Day1
  /\ today' = Day2
  /\ UNCHANGED <<pc, args, basic_map, full_map, enhanced_map, api, files>>
  /\ UNCHANGED <<environ, api_name, queries, results, report, calls>>
  /\ UNCHANGED crawlVars

\* basic_map = group_and_format(pages, ...)
Format ==
  /\ pc = "format"
  /\ basic_map' = group_and_format(variant, pages, args.name, base_url, today)
  /\ pc' = IF variant = "generator" /\ ~args.skip_enhance THEN "enhance" ELSE "save"
  /\ UNCHANGED <<args, today, full_map, enhanced_map, api, files>>
  /\ UNCHANGED <<environ, api_name, queries, results, report, calls>>
  /\ UNCHANGED crawlVars

\* llms.txt is written with basic_map: under --skip-enhance in
\* llms-txt-generator.py, always in enhanced_crawler.py and in crawler.py
SaveBasic ==
  /\ pc = "save"
  /\ files' = write(files, "llms.txt", basic_map)
  /\ pc' = IF variant = "enhanced" /\ ~args.skip_enhance THEN "enhance" ELSE "full"
  /\ UNCHANGED <<args, today, basic_map, full_map, enhanced_map, api>>
  /\ UNCHANGED <<environ, api_name, queries, results, report, calls>>
  /\ UNCHANGED crawlVars

\* a faulty fallback: what enhance_site_map returned is written, whatever it is
ChosenNoFallback(e, b) == e

\* if enhanced_map: f.write(enhanced_map) else: f.write(basic_map)
Chosen(e, b) == IF Truthy(e) THEN e ELSE b

\* the try block when enhance_with_gemini returns reply (None or a text):
\* llms-txt-generator.py writes llms.txt, with the enhanced text or with
\* basic_map; enhanced_crawler.py writes llms-enhanced.txt or nothing
Enhanced(reply, how) ==
  /\ enhanced_map' = enhance_site_map(variant, reply)
  /\ api' = how
  /\ files' = IF variant = "generator"
              THEN write(files, "llms.txt", Chosen(enhanced_map', basic_map))
              ELSE IF Truthy(enhanced_map')
              THEN write(files, "llms-enhanced.txt", enhanced_map')
              ELSE files
  /\ pc' = "full"
  /\ UNCHANGED <<args, today, basic_map, full_map>>
  /\ UNCHANGED <<environ, api_name, queries, results, report, calls>>
  /\ UNCHANGED crawlVars

\* response.status_code != 200: return None
EnhanceNon200 ==
  /\ pc = "enhance"
  /\ Enhanced(None, "non200")

\* except (KeyError, IndexError): return None
EnhanceUnparsable ==
  /\ pc = "enhance"
  /\ Enhanced(None, "unparsable")

\* return generated_text
EnhanceText ==
  /\ pc = "enhance"
  /\ \E t \in Replies : Enhanced(t, "text")

\* an exception leaves the try block (input() at end of file, requests.post
\* without a connection, response.json() on a body that is not JSON):
\* llms-txt-generator.py writes basic_map, enhanced_crawler.py prints a message
EnhanceRaises ==
  /\ pc = "enhance"
  /\ api' = "raises"
  /\ files' = IF variant = "generator"
              THEN write(files, "llms.txt", basic_map)
              ELSE files
  /\ pc' = "full"
  /\ UNCHANGED <<args, today, basic_map, full_map, enhanced_map>>
  /\ UNCHANGED <<environ, api_name, queries, results, report, calls>>
  /\ UNCHANGED crawlVars

\* a second call of group_and_format on the same arguments: under --full in
\* llms-txt-generator.py, which writes it to llms-full.txt; in the two other
\* files it is the call of the next run on the same page list
FormatAgain ==
  /\ pc = "full"
  /\ variant = "generator" => args.full
  /\ full_map' = group_and_format(variant, pages, args.name, base_url, today)
  /\ files' = IF variant = "generator"
              THEN write(files, "llms-full.txt", full_map')
              ELSE files
  /\ pc' = "done"
  /\ UNCHANGED <<args, today, basic_map, enhanced_map, api>>
  /\ UNCHANGED <<environ, api_name, queries, results, report, calls>>
  /\ UNCHANGED crawlVars

\* main returns without --full
Finish ==
  /\ pc = "full"
  /\ variant = "generator"
  /\ ~args.full
  /\ pc' = "done"
  /\ UNCHANGED <<args, today, basic_map, full_map, enhanced_map, api, files>>
  /\ UNCHANGED <<environ, api_name, queries, results, report, calls>>
  /\ UNCHANGED crawlVars

MainNext ==
  \/ Midnight
  \/ Format
  \/ SaveBasic
  \/ EnhanceNon200
  \/ EnhanceUnparsable
  \/ EnhanceText
  \/ EnhanceRaises
  \/ FormatAgain
  \/ Finish

MainSpec == MainInit /\ [][MainNext]_vars

\* ------------------------------------------------------------------ benchmark
Claude == <<"claude">>
OpenAI == <<"openai">>
Gemini == <<"gemini">>
Auto == <<"auto">>

\* API_BACKENDS: the environment variable and the label of each backend
API_BACKENDS ==
  (Claude :> [env_key |-> "ANTHROPIC_API_KEY", label |-> "Claude (Anthropic)"]) @@
  (OpenAI :> [env_key |-> "OPENAI_API_KEY", label |-> "GPT (OpenAI)"]) @@
  (Gemini :> [env_key |-> "GOOGLE_API_KEY", label |-> "Gemini (Google)"])

EnvKeys == {API_BACKENDS[n].env_key : n \in DOMAIN API_BACKENDS}

\* the environments: each of the three variables is unset, empty or holds a key
Environments == UNION {[S -> {<<>>, <<"k">>}] : S \in SUBSET EnvKeys}

\* os.environ.get(key)
environ_get(env, key) == IF key \in DOMAIN env THEN env[key] ELSE None

\* for name in names: if os.environ.get(API_BACKENDS[name]["env_key"]): return name
RECURSIVE first_available(_, _)
first_available(env, names) ==
  IF names = <<>> THEN None
  ELSE IF Truthy(environ_get(env, API_BACKENDS[Head(names)].env_key))
       THEN Head(names)
       ELSE first_available(env, Tail(names))

\* a faulty detection: a variable that is set counts, whatever its value
detect_apiByPresence(env) ==
  LET present == SelectSeq(<<Claude, OpenAI, Gemini>>,
                           LAMBDA n : API_BACKENDS[n].env_key \in DOMAIN env)
  IN IF present = <<>> THEN None ELSE Head(present)

\* detect_api(): the first of claude, openai, gemini whose key is set, or None
detect_api(env) == first_available(env, <<Claude, OpenAI, Gemini>>)

\* the test queries: JSON objects; a custom query file may hold an object
\* without the key "query"
Q1 == [query |-> <<"q1">>, key_facts |-> <<"f">>]
Q2 == [query |-> <<"q2">>, key_facts |-> <<"f">>]
NoQueryKey == [key_facts |-> <<"f">>]
QueryLists == UNION {[1..n -> {Q1, Q2, NoQueryKey}] : n \in 0..MaxQueries}

\* what json.loads gives judge_responses: scores of every criterion, or an
\* object that lacks some of them
Scores == {"complete", "partial"}

\* main of llms-txt-benchmark.py after parse_args
BenchInit ==
  /\ site = [u \in HtmlPages |-> <<>>]
  /\ variant = "generator"
  /\ base_url = Origin
  /\ max_pages = MaxBudget
  /\ to_visit = <<>>
  /\ visited = {}
  /\ pages = <<>>
  /\ outcome = "returned"
  /\ last = NoFetch("return", base_url)
  /\ failed = {}
  /\ fetches = [u \in Universe |-> 0]
  /\ appended = [u \in Universe |-> 0]
  /\ answered = {}
  /\ discovered = <<>>
  /\ replay = NoReplay
  /\ pc = "resolve"
  /\ args \in [api : {Claude, OpenAI, Gemini, Auto}]
  /\ today = Day1
  /\ basic_map = None
  /\ full_map = None
  /\ enhanced_map = None
  /\ api = "none"
  /\ files = NoFiles
  /\ environ \in Environments
  /\ api_name = args.api
  /\ queries \in QueryLists
  /\ results = <<>>
  /\ report = None
  /\ calls = <<>>

\* --api auto: api_name = detect_api(); exit status 1 when it is None
ResolveAuto ==
  /\ pc = "resolve"
  /\ args.api = Auto
  /\ api_name' = detect_api(environ)
  /\ pc' = IF Truthy(detect_api(environ)) THEN "load" ELSE "exit1"
  /\ UNCHANGED <<args, today, basic_map, full_map, enhanced_map, api, files, environ>>
  /\ UNCHANGED <<queries, results, report, calls>>
  /\ UNCHANGED crawlVars

\* --api claude, openai or gemini: exit status 1 when the backend's key is not set
ResolveNamed ==
  /\ pc = "resolve"
  /\ args.api # Auto
  /\ pc' = IF Truthy(environ_get(environ, API_BACKENDS[api_name].env_key))
           THEN "load" ELSE "exit1"
  /\ UNCHANGED <<args, today, basic_map, full_map, enhanced_map, api, files, environ,
                 api_name>>
  /\ UNCHANGED <<queries, results, report, calls>>
  /\ UNCHANGED crawlVars

\* what every step of the benchmark after the API resolution leaves alone
BenchIdle ==
  /\ UNCHANGED <<args, today, basic_map, full_map, enhanced_map, api, files, environ,
                 api_name, queries>>
  /\ UNCHANGED crawlVars

\* llms.txt and the query file are read; exit status 1 when one is not found
Load ==
  /\ pc = "load"
  /\ \E found \in BOOLEAN : pc' = IF found THEN "run" ELSE "exit1"
  /\ results' = <<>>
  /\ UNCHANGED <<report, calls>>
  /\ BenchIdle

\* for i, q in enumerate(queries, 1): query_obj is the q of the next iteration
InLoop == pc = "run" /\ Len(calls) < Len(queries)
query_obj == queries[Len(calls) + 1]

\* query_text = q["query"] stands before the try: KeyError ends the program
QueryKeyError ==
  /\ InLoop
  /\ "query" \notin DOMAIN query_obj
  /\ pc' = "raised"
  /\ UNCHANGED <<results, report, calls>>
  /\ BenchIdle

\* the first call_fn of run_query_pair raises: except Exception, continue
BaselineRaises ==
  /\ InLoop
  /\ "query" \in DOMAIN query_obj
  /\ calls' = Append(calls, "baseline")
  /\ UNCHANGED <<pc, results, report>>
  /\ BenchIdle

\* the second call_fn of run_query_pair raises: except Exception, continue
EnhancedRaises ==
  /\ InLoop
  /\ "query" \in DOMAIN query_obj
  /\ calls' = Append(calls, "enhanced")
  /\ UNCHANGED <<pc, results, report>>
  /\ BenchIdle

\* a faulty iteration: the entry is appended before the judge is called
JudgeRaisesKeepsEntry ==
  /\ InLoop
  /\ "query" \in DOMAIN query_obj
  /\ calls' = Append(calls, "judge")
  /\ results' = Append(results, [query |-> query_obj.query, scores |-> "partial"])
  /\ UNCHANGED <<pc, report>>
  /\ BenchIdle

\* judge_responses raises (call_fn, or json.loads on the reply): continue
JudgeRaises ==
  /\ InLoop
  /\ "query" \in DOMAIN query_obj
  /\ calls' = Append(calls, "judge")
  /\ UNCHANGED <<pc, results, report>>
  /\ BenchIdle

\* the three calls returned: results.append; with partial scores the summary
\* print after it raises KeyError, which the except clause swallows
Scored ==
  /\ InLoop
  /\ "query" \in DOMAIN query_obj
  /\ \E sc \in Scores :
       results' = Append(results, [query |-> query_obj.query, scores |-> sc])
  /\ calls' = Append(calls, "scored")
  /\ UNCHANGED <<pc, report>>
  /\ BenchIdle

\* if not results: sys.exit(1)
NoResults ==
  /\ pc = "run"
  /\ Len(calls) = Len(queries)
  /\ results = <<>>
  /\ pc' = "exit1"
  /\ UNCHANGED <<results, report, calls>>
  /\ BenchIdle

\* generate_report(results, ...): the queries of results, in their order; it
\* raises KeyError on an entry with partial scores
generate_report(rs) == [k \in 1..Len(rs) |-> rs[k].query]

\* report = generate_report(...); output_path.write_text(report)
Report ==
  /\ pc = "run"
  /\ Len(calls) = Len(queries)
  /\ results # <<>>
  /\ IF \A k \in 1..Len(results) : results[k].scores = "complete"
     THEN pc' = "done" /\ report' = generate_report(results)
     ELSE pc' = "raised" /\ report' = report
  /\ UNCHANGED <<results, calls>>
  /\ BenchIdle

BenchNext ==
  \/ ResolveAuto
  \/ ResolveNamed
  \/ Load
  \/ QueryKeyError
  \/ BaselineRaises
  \/ EnhancedRaises
  \/ JudgeRaises
  \/ Scored
  \/ NoResults
  \/ Report

BenchSpec == BenchInit /\ [][BenchNext]_vars

\* ------------------------------------------------------------------ claims
RecordedURLs == {pages[i][1] : i \in 1..Len(pages)}

\* the recorded pages, other than u, whose anchors resolve to u
Linkers(u) == {p \in RecordedURLs \ {u} : u \in Targets(p)}

\* the Scope Filter of the specification: the origin is a prefix, no excluded suffix
InScope(u) == startswith(u, base_url) /\ ~endswith(u, ExcludedExtensions)

\* the in-scope URLs reachable from the origin by following anchors
RECURSIVE Closure(_)
Closure(S) ==
  LET T == S \cup {t \in UNION {Targets(u) : u \in S} : InScope(t)}
  IN IF T = S THEN S ELSE Closure(T)
Reachable == Closure({base_url})

\* C1: the list crawl_site of llms-txt-generator.py (and of enhanced_crawler.py)
\* returns never holds the same URL twice.
C1_AtMostOnce ==
  (outcome = "returned" /\ variant \in {"enhanced", "generator"}) =>
    \A i, j \in 1..Len(pages) : i < j => pages[i][1] # pages[j][1]

\* C2: in every state of crawl_site, and in what it returns, the number of
\* recorded pages is at most max_pages.
C2_BudgetRespect == Len(pages) <= max_pages

\* C3: when at least max_pages in-scope URLs are reachable from the origin and
\* every fetch of the run answered 200, crawl_site returns exactly max_pages pages.
C3_BudgetEquality ==
  (/\ outcome = "returned"
   /\ variant = "generator"
   /\ failed = {}
   /\ Cardinality(Reachable) >= max_pages)
    => Len(pages) = max_pages

\* C4: the loop eventually halts, and it halts with the queue empty or with
\* |visited| = max_pages.
C4_Terminates ==
  <>(outcome = "returned"
     /\ (to_visit = <<>> \/ Cardinality(visited) = max_pages))

\* C5: every URL of the returned list begins with base_url and none ends with an
\* excluded extension.
C5_ScopeClosure ==
  outcome = "returned" =>
    \A i \in 1..Len(pages) :
      startswith(pages[i][1], base_url) /\ ~endswith(pages[i][1], ExcludedExtensions)

\* C6: a fetch that raises a transport error or answers a non-200 status does not
\* abort crawl_site and records nothing: the run is still in its loop, pages is
\* what it was, the queue has lost only the popped URL, and the loop goes on to
\* the next queued URL whenever one is left.
C6_FailureIsNotFatal ==
  [][last'.op \in {"error", "non200"} =>
       /\ outcome' = "running"
       /\ pages' = pages
       /\ to_visit' = Tail(to_visit)
       /\ (to_visit' # <<>> => LoopCond')]_vars

\* C6 witness: after the fetch of one URL failed, another URL was fetched and recorded.
C6_Witness ==
  /\ variant = "generator"
  /\ failed # {}
  /\ last.op = "done"
  /\ last.url \notin failed
  /\ \E i \in 1..Len(pages) : pages[i][1] = last.url

\* C7 as stated: once a fetch of u has failed, u is never fetched again.
C7_NoRetry == last.op \in FetchOps => ~last.again

\* C7 as amended: a failed fetch uses up the queue entry of u and puts none back,
\* so that u is fetched at most once for each time it was put in the queue.
C7_OneFetchPerQueueEntry == \A u \in Universe : fetches[u] <= appended[u]

\* C7 witness: a URL whose fetch had failed is fetched again, from a second queue entry.
C7_Witness ==
  /\ variant = "generator"
  /\ last.op \in FetchOps
  /\ last.again
  /\ fetches[last.url] = 2
  /\ appended[last.url] = 2

\* C8 as stated: a URL that two different recorded pages link to is fetched at
\* most once.
C8_SharedChildOnce ==
  \A u \in Universe : Cardinality(Linkers(u)) >= 2 => fetches[u] <= 1

\* C8 as amended: a URL that two different recorded pages link to is never
\* fetched once it is in visited (it is fetched again only while no fetch of it
\* ended with the URL marked visited).
C8_SharedChildNotRefetchedOnceVisited ==
  \A u \in Universe :
    (Cardinality(Linkers(u)) >= 2 /\ last.op \in FetchOps /\ last.url = u)
      => ~last.revisit

\* C8 witness: two different recorded pages link to u, and u was fetched twice.
C8_Witness ==
  \E u \in Universe :
    /\ variant = "generator"
    /\ Cardinality(Linkers(u)) >= 2
    /\ fetches[u] >= 2
    /\ last.op \in FetchOps /\ last.url = u

\* C9: a URL ending in an excluded extension is never in the queue and never in pages.
C9_ExcludedNeverQueued ==
  /\ \A i \in 1..Len(to_visit) : ~endswith(to_visit[i], ExcludedExtensions)
  /\ \A i \in 1..Len(pages) : ~endswith(pages[i][1], ExcludedExtensions)

\* C10: every URL held in the queue of crawl_site (llms-txt-generator.py) begins
\* with the origin string.
C10_QueueInScope ==
  variant = "generator" =>
  \A i \in 1..Len(to_visit) : startswith(to_visit[i], base_url)

\* C17 as stated: when the origin URL cannot be resolved (the first request, the
\* one for base_url, raises and nothing else was fetched), crawl_site does not
\* return normally: it signals the failure to its caller.
C17_OriginFailureIsSignalled ==
  (/\ base_url \in failed
   /\ fetches[base_url] = 1
   /\ \A u \in Universe \ {base_url} : fetches[u] = 0)
    => outcome # "returned"

\* C18 as stated: a fetch that answered 200 (whatever its <title> holds) leaves
\* the URL in visited and, while the list is short enough to be kept whole,
\* in pages.
C18_SuccessIsRecorded ==
  last.op \in {"title", "done", "linkerr"} =>
    /\ last.url \in visited
    /\ (Len(pages) < MaxRecorded => last.url \in RecordedURLs)

\* C19: a fetch that raises a transport error or answers non-200 leaves visited
\* and pages as they were and appends nothing: the queue is the old one without
\* its front, and no URL's count of appends has moved.
C19_FailedFetchFrame ==
  [][last'.op \in {"error", "non200"} =>
       /\ visited' = visited
       /\ pages' = pages
       /\ to_visit' = Tail(to_visit)
       /\ appended' = appended]_vars

\* C19 witness: a URL whose fetch failed is not in visited and was appended to
\* the queue a second time by a page processed afterwards.
C19_Witness ==
  \E u \in failed :
    /\ variant = "generator"
    /\ u \notin visited
    /\ appended[u] = 2
    /\ last.op = "done" /\ last.url # u
    /\ u \in Range(to_visit)

\* C20: an iteration that discards the popped URL (it is in visited, or it does
\* not begin with the origin) issues no fetch and no delay and leaves visited and
\* pages as they were; the queue is the old one without its front.
C20_DiscardFrame ==
  [][last'.op = "discard" =>
       /\ Skip(Head(to_visit))
       /\ fetches' = fetches
       /\ ~last'.slept
       /\ visited' = visited
       /\ pages' = pages
       /\ to_visit' = Tail(to_visit)]_vars

\* C20 witness: a URL that was already in visited has been popped and discarded.
C20_Witness ==
  /\ variant = "generator"
  /\ last.op = "discard"
  /\ last.url \in visited
  /\ pages # <<>>

\* ------------------------------------------------------------------ the document
\* the lines of a document, and the lines that are bullets and H2 headings
IsBullet(line) == Len(line) >= 3 /\ SubSeq(line, 1, 3) = <<"-", " ", "[">>
IsH2(line) == Len(line) >= 3 /\ SubSeq(line, 1, 3) = <<"#", "#", " ">>
Max(S) == CHOOSE x \in S : \A y \in S : x >= y

\* the URL of a bullet "- [title](url)"; none when the line holds no "]("
LinkURL(line) ==
  LET opens == {k \in 1..(Len(line) - 1) : line[k] = "]" /\ line[k + 1] = "("}
  IN IF opens = {} THEN <<>> ELSE SubSeq(line, Max(opens) + 2, Len(line) - 1)

\* the indices of the bullets of a list of lines
BulletAt(ls) == {i \in 1..Len(ls) : IsBullet(ls[i])}

\* the index of the H2 line a bullet stands under
H2Before(ls, i) == Max({k \in 1..i : IsH2(ls[k])})

\* the set of URLs that appear as bullet links in a document
BulletURLs(doc) ==
  LET ls == split_lines(doc) IN {LinkURL(ls[i]) : i \in BulletAt(ls)}

\* main of llms-txt-generator.py has left the enhancement step of a run
\* without --skip-enhance
EnhancementOver ==
  variant = "generator" /\ ~args.skip_enhance /\ pc \in {"full", "done"}

\* C11: in main of llms-txt-generator.py without --skip-enhance, after a non-200
\* API status, an unparsable response, an empty text or an exception, llms.txt
\* holds exactly basic_map; it holds anything else only when the enhancement
\* returned a non-empty text, and then it holds that text.
C11_EnhancementNeverLosesOutput ==
  EnhancementOver =>
    /\ api \in {"non200", "unparsable", "raises"} => files["llms.txt"] = basic_map
    /\ (api = "text" /\ enhanced_map = <<>>) => files["llms.txt"] = basic_map
    /\ files["llms.txt"] # basic_map =>
         (api = "text" /\ enhanced_map # <<>> /\ files["llms.txt"] = enhanced_map)

\* C11 witness: the enhancement raised and llms.txt holds the basic map of a
\* non-empty page list.
C11_Witness ==
  /\ EnhancementOver
  /\ api = "raises"
  /\ pages # <<>>
  /\ files["llms.txt"] = basic_map
  /\ basic_map # None

\* C12: the output of group_and_format (llms-txt-generator.py) holds as many
\* bullets as the input holds pages, each URL as often as the input holds it,
\* and all the bullets of one URL stand under the same heading.
C12_TotalPartition ==
  (variant = "generator" /\ basic_map # None) =>
    LET ls == split_lines(basic_map)
        B == BulletAt(ls)
    IN /\ Cardinality(B) = Len(pages)
       /\ \A k \in 1..Len(pages) :
            Cardinality({i \in B : LinkURL(ls[i]) = Str(pages[k][1])})
              = Cardinality({j \in 1..Len(pages) : pages[j][1] = pages[k][1]})
       /\ \A i, j \in B :
            LinkURL(ls[i]) = LinkURL(ls[j]) => H2Before(ls, i) = H2Before(ls, j)

\* C12 witness: a list of two pages of one section has been formatted.
C12_Witness ==
  /\ variant = "generator"
  /\ basic_map # None
  /\ Len(pages) = 2
  /\ pages[1] # pages[2]
  /\ top_section(pages[1][1]) = top_section(pages[2][1])

\* C13 as stated: in each variant, when some page maps to Home, the first H2 of
\* the output is Home and the sections after it are in ascending order of key.
C13_HomeFirst ==
  (basic_map # None /\ \E k \in 1..Len(pages) : top_section(pages[k][1]) = Home) =>
    LET ls == split_lines(basic_map)
        secs == sections(variant, pages)
    IN /\ ls[Min({i \in 1..Len(ls) : IsH2(ls[i])})] = <<"#", "#", " ">> \o Home
       /\ secs[1] = Home
       /\ \A i, j \in 2..Len(secs) : i < j => StrLess(secs[i], secs[j])

\* C14 as stated: under one heading the bullets' URLs never get shorter, and
\* two different URLs of equal length stand in the order the input has them in.
C14_StableWithinSection ==
  basic_map # None =>
    LET ls == split_lines(basic_map)
        B == BulletAt(ls)
    IN \A i, j \in B :
         (i < j /\ H2Before(ls, i) = H2Before(ls, j)) =>
           /\ Len(LinkURL(ls[i])) <= Len(LinkURL(ls[j]))
           /\ (Len(LinkURL(ls[i])) = Len(LinkURL(ls[j]))
                 /\ LinkURL(ls[i]) # LinkURL(ls[j])) =>
                \E a, b \in 1..Len(pages) :
                  /\ a < b
                  /\ Str(pages[a][1]) = LinkURL(ls[i])
                  /\ Str(pages[b][1]) = LinkURL(ls[j])

\* C15 as stated: in each variant, two calls of group_and_format with the same
\* arguments return the same string, whenever they are made.
C15_IdempotentFormatting ==
  (basic_map # None /\ full_map # None) => full_map = basic_map

\* C16 as stated: when crawl_site (llms-txt-generator.py) has returned, the URLs
\* that appear as bullet links in the document group_and_format makes of pages
\* are the in-scope URLs that were dequeued and answered 200 (while the list is
\* short enough to be kept whole).
C16_RoundTrip ==
  (outcome = "returned" /\ pc = "crawl_site" /\ variant = "generator"
     /\ Len(pages) < MaxRecorded) =>
    BulletURLs(group_and_format(variant, pages, args.name, base_url, today))
      = {Str(u) : u \in {a \in answered : InScope(a)}}

\* the number of entries of the queue q that hold u
Entries(q, u) == Cardinality({i \in 1..Len(q) : q[i] = u})

\* C21 as stated: in each variant the queue holds each URL at most once.
C21_NoDuplicateQueueEntries ==
  \A i, j \in 1..Len(to_visit) : i < j => to_visit[i] # to_visit[j]

\* C22: once u is in visited, no step appends u to the queue (the number of
\* queue entries that hold u does not grow) and no step fetches u.
C22_VisitedNeverAgain ==
  [][\A u \in visited :
       /\ Entries(to_visit', u) <= Entries(to_visit, u)
       /\ (last'.op \in FetchOps => last'.url # u)]_vars

\* C22 witness: a page was processed that links to a URL marked visited before,
\* and that URL is not in the queue.
C22_Witness ==
  \E u \in visited :
    /\ variant = "generator"
    /\ last.op = "done"
    /\ last.url # u
    /\ u \in Targets(last.url)
    /\ u \notin Range(to_visit)

\* C26 as stated: after an error raised while the links of a fetched page were
\* processed, the page is in pages and in visited and the crawl goes on.
C26_LinkFailureDegrades ==
  (variant = "generator" /\ last.op = "linkerr") =>
    /\ last.url \in RecordedURLs
    /\ last.url \in visited
    /\ outcome = "running"

\* C29 as stated: at the start of every iteration the URLs recorded in pages are
\* the URLs of visited (while the list is short enough to be kept whole).
C29_RecordedIffVisited ==
  (outcome = "running" /\ Len(pages) < MaxRecorded) => RecordedURLs = visited

\* C30 as stated: in enhanced_crawler.py and llms-txt-generator.py, at the start
\* of every iteration no URL of the queue is in visited.
C30_QueueDisjointFromVisited ==
  (outcome = "running" /\ variant \in {"enhanced", "generator"})
    => \A i \in 1..Len(to_visit) : to_visit[i] \notin visited

\* C25 as stated: in enhanced_crawler.py and llms-txt-generator.py, when a fetch
\* is issued after an earlier fetch attempt of the run, the delay has been
\* applied since that attempt, however it ended.
C25_PacingBetweenFetches ==
  [][(/\ variant \in {"enhanced", "generator"}
      /\ last'.op \in FetchOps
      /\ \E u \in Universe : fetches[u] > 0) => last.rested]_vars

\* the place of the first entry of pages that holds u, and the place of u in
\* the order of first appends
FirstRecorded(u) == Min({i \in 1..Len(pages) : pages[i][1] = u})
FirstQueued(u) == Min({i \in 1..Len(discovered) : discovered[i] = u})

\* C23 as stated: of two recorded URLs, the one recorded first was first
\* appended to the queue first.
C23_RecordedInDiscoveryOrder ==
  variant = "generator" =>
    \A u, w \in RecordedURLs :
      FirstRecorded(u) < FirstRecorded(w) => FirstQueued(u) < FirstQueued(w)

\* C23 as amended: of two recorded URLs, the one recorded first was first
\* appended first whenever the other was fetched only once (the fetch that
\* recorded it); a URL whose first fetch failed is recorded at the place of a
\* later queue entry.
C23_DiscoveryOrderUnlessRefetched ==
  \A u, w \in RecordedURLs :
    (FirstRecorded(u) < FirstRecorded(w) /\ fetches[w] = 1)
      => FirstQueued(u) < FirstQueued(w)

\* C23 witness: a URL whose first fetch failed has been recorded after a URL
\* that was first appended after it, and a URL fetched once after the origin.
C23_Witness ==
  /\ variant = "generator"
  /\ \E u, w \in RecordedURLs :
       /\ FirstRecorded(u) < FirstRecorded(w)
       /\ FirstQueued(w) < FirstQueued(u)
       /\ w \in failed
       /\ fetches[u] = 1
       /\ FirstRecorded(base_url) < FirstRecorded(u)

\* C27 as stated: in the output of group_and_format (llms-txt-generator.py) a
\* bullet stands under the heading Home exactly when the path of its URL is
\* empty or holds only "/" characters.
C27_HomeOnlyForEmptyPath ==
  (variant = "generator" /\ basic_map # None) =>
    LET ls == split_lines(basic_map)
    IN \A i \in BulletAt(ls) :
         ls[H2Before(ls, i)] = <<"#", "#", " ">> \o Home
           <=> strip(urlparse_path(LinkURL(ls[i])), {"/"}) = <<>>

\* an environment variable is set: present with a non-empty value
IsSet(key) == key \in DOMAIN environ /\ environ[key] # <<>>

\* C28: after the auto-detection, api_name (what detect_api returned) is claude
\* when ANTHROPIC_API_KEY is set, else openai when OPENAI_API_KEY is set, else
\* gemini when GOOGLE_API_KEY is set, and None exactly when none is set; an
\* empty value counts as not set.
C28_DetectApiPreference ==
  (args.api = Auto /\ pc \in {"load", "exit1"}) =>
    /\ IsSet("ANTHROPIC_API_KEY") => api_name = Claude
    /\ (~IsSet("ANTHROPIC_API_KEY") /\ IsSet("OPENAI_API_KEY")) => api_name = OpenAI
    /\ (~IsSet("ANTHROPIC_API_KEY") /\ ~IsSet("OPENAI_API_KEY")
          /\ IsSet("GOOGLE_API_KEY")) => api_name = Gemini
    /\ api_name = None <=> \A k \in EnvKeys : ~IsSet(k)

\* C28 witness: ANTHROPIC_API_KEY is set to the empty string, the two other
\* variables hold keys, and the auto-detection has chosen openai.
C28_Witness ==
  /\ args.api = Auto
  /\ pc = "load"
  /\ "ANTHROPIC_API_KEY" \in DOMAIN environ
  /\ environ["ANTHROPIC_API_KEY"] = <<>>
  /\ IsSet("OPENAI_API_KEY")
  /\ IsSet("GOOGLE_API_KEY")
  /\ api_name = OpenAI

C31_PagesAndVisitedOnlyGrow ==
  [][/\ Len(pages) <= Len(pages')
     /\ SubSeq(pages', 1, Len(pages)) = pages
     /\ visited \subseteq visited']_vars

\* C31 witness: two pages are recorded and visited, in generator's crawl_site.
C31_Witness ==
  /\ variant = "generator"
  /\ outcome = "running"
  /\ Len(pages) = 2
  /\ pages[1][1] # pages[2][1]
  /\ RecordedURLs = visited

\* C32 as stated: in the output of group_and_format (llms-txt-generator.py) two
\* bullets whose URLs have different section keys stand under H2 headings
\* that differ in their text.
C32_DistinctSectionsDistinctHeadings ==
  (variant = "generator" /\ basic_map # None) =>
    LET ls == split_lines(basic_map)
    IN \A i, j \in BulletAt(ls) :
         top_section(LinkURL(ls[i])) # top_section(LinkURL(ls[j]))
           => ls[H2Before(ls, i)] # ls[H2Before(ls, j)]

\* the query texts of the iterations so far in which the three calls returned,
\* in query order
ScoredQueries ==
  LET idx == SelectSeq([k \in 1..Len(calls) |-> k], LAMBDA k : calls[k] = "scored")
  IN [n \in 1..Len(idx) |-> queries[idx[n]].query]

\* C33: in the benchmark main loop an iteration whose baseline, enhanced or
\* judge call raises leaves the program in the loop and results as it was;
\* results holds exactly the queries whose three calls returned, in query
\* order; the report is written only when results is non-empty, and with empty
\* results after the loop the program exits with status 1 and writes no report.
C33_FailedQueriesSkipped ==
  [][/\ (calls' # calls /\ calls'[Len(calls')] # "scored")
          => (pc' = "run" /\ results' = results)
     /\ [n \in 1..Len(results') |-> results'[n].query] = ScoredQueries'
     /\ report' # None => results' # <<>>
     /\ (pc = "run" /\ Len(calls) = Len(queries) /\ results = <<>>)
          => (pc' = "exit1" /\ report' = None)]_vars

\* C33 witness: of two queries the first was skipped because the judge call
\* raised, the second was scored, and the report holds the second only.
C33_Witness ==
  /\ pc = "done"
  /\ calls = <<"judge", "scored">>
  /\ Len(results) = 1
  /\ results[1].query = queries[2].query
  /\ report = <<queries[2].query>>

====
